---- MODULE Spec2Model ----
(***************************************************************************)
(* A model of blif_to_tt.py: parse_blif (the line-oriented BLIF parser),   *)
(* change_row and get_tt_from_blif (the truth-table builder).              *)
(*                                                                         *)
(* Text is modelled as sequences of one-character strings ("chars"); a     *)
(* token is a sequence of chars, a table row is a sequence of "0"/"1".     *)
(* Python indices are 0-based and kept as such in name_to_index, checked   *)
(* and the rewritten headers; a row's column idx is row[idx + 1] here.     *)
(***************************************************************************)
EXTENDS Integers, Sequences, FiniteSets, TLC

VARIABLES
    \* ---- parse_blif's file and locals
    source,          \* the physical lines of the file
    fh,              \* the file object: the number of lines read
    command,         \* the logical command being accumulated
    names,           \* the list object `names` (header and cover rows)
    aliases,         \* positions of list_of_names holding that same object
    bound,           \* which of inputs/outputs have been assigned
    ended,           \* history: the line at which `.end` first ran, or 0
    \* ---- shared: parse_blif's results, get_tt_from_blif's inputs
    inputs, outputs, list_of_names,
    \* ---- get_tt_from_blif's locals
    blif,            \* history: what parse_blif returned at line 103
    tt, name_to_index, checked, found_unchecked, name,
    todo,            \* iterations of the loop of line 131 still to run
    \* ---- control
    pc, err

vars == <<source, fh, command, names, aliases, bound, ended, inputs, outputs,
          list_of_names, blif, tt, name_to_index, checked, found_unchecked,
          name, todo, pc, err>>

parseVars == <<source, fh, command, names, aliases, bound, ended>>
buildVars == <<blif, tt, name_to_index, checked, found_unchecked, name, todo>>

(***************************************************************************)
(* Bounds of the model and the program's constant.                         *)
(***************************************************************************)
MAXIMAL_INPUTS == 22

\* primary inputs of the netlists whose table is enumerated
MaxInputs == 2
\* signal definitions per netlist
MaxDefs == 2
\* cover rows per definition
MaxCover == 2
\* size of a netlist: per definition, 1 and the characters of its cover rows
MaxSize == 6
\* how far past the ceiling the input counts of the ceiling netlists go
MaxOver == 2
\* physical lines per file
MaxLines == 5

Bits == {"0", "1"}
PatternSymbols == {"0", "1", "-"}
\* names are tokens too
InputNames == << <<"a">>, <<"b">>, <<"c">>, <<"d">> >>
OutNames == {<<"y">>, <<"z">>}

Min(a, b) == IF a < b THEN a ELSE b

RECURSIVE Pow2(_)
Pow2(n) == IF n = 0 THEN 1 ELSE 2 * Pow2(n - 1)

(***************************************************************************)
(* parse_blif, lines 29-46: one physical line, a sequence of chars.        *)
(***************************************************************************)
Whitespace == {" ", "\t"}

\* lines 31-32: line.split('#', 1)[0]
RECURSIVE StripComment(_)
StripComment(line) ==
    IF line = <<>> \/ Head(line) = "#" THEN <<>>
    ELSE <<Head(line)>> \o StripComment(Tail(line))

RECURSIVE LStrip(_)
LStrip(line) ==
    IF line # <<>> /\ Head(line) \in Whitespace THEN LStrip(Tail(line)) ELSE line

RECURSIVE RStrip(_)
RStrip(line) ==
    IF line # <<>> /\ line[Len(line)] \in Whitespace
    THEN RStrip(SubSeq(line, 1, Len(line) - 1)) ELSE line

\* line 34: line.strip()
Strip(line) == RStrip(LStrip(line))

\* line 39: re.sub(r'\s+', ' ', line)
RECURSIVE CollapseWhitespace(_)
CollapseWhitespace(line) ==
    IF line = <<>> THEN <<>>
    ELSE IF Head(line) \in Whitespace
    THEN <<" ">> \o CollapseWhitespace(LStrip(line))
    ELSE <<Head(line)>> \o CollapseWhitespace(Tail(line))

\* str.startswith
StartsWith(s, prefix) ==
    Len(s) >= Len(prefix) /\ SubSeq(s, 1, Len(prefix)) = prefix

\* line 42: line.endswith('\\')
EndsWithBackslash(line) == line # <<>> /\ line[Len(line)] = "\\"

\* str.split(' '): every single space separates, so two spaces in a row
\* yield an empty token
RECURSIVE Split(_)
Split(s) ==
    IF \A i \in 1..Len(s) : s[i] # " " THEN <<s>>
    ELSE LET i == CHOOSE x \in 1..Len(s) :
                      s[x] = " " /\ \A y \in 1..(x - 1) : s[y] # " "
         IN  <<SubSeq(s, 1, i - 1)>> \o Split(SubSeq(s, i + 1, Len(s)))

DotInputs == <<".", "i", "n", "p", "u", "t", "s">>
DotOutputs == <<".", "o", "u", "t", "p", "u", "t", "s">>
DotNames == <<".", "n", "a", "m", "e", "s">>
DotModel == <<".", "m", "o", "d", "e", "l">>
DotEnd == <<".", "e", "n", "d">>

(***************************************************************************)
(* parse_blif, lines 29-67: the body of the loop for one physical line, on *)
(* the parser's state st.  `names` is one list object: list_of_names holds *)
(* it by reference, at the positions st.aliases, and an append to names    *)
(* (line 66) shows at each of them.                                        *)
(***************************************************************************)
\* lines 54 and 61: if names: list_of_names.append(names)
CommitNames(st) ==
    IF st.names = <<>> THEN st
    ELSE [st EXCEPT !.list_of_names = Append(@, st.names),
                    !.aliases = @ \cup {Len(st.list_of_names) + 1}]

\* line 66: names.append(tuple(line.split(' ')))
AppendRow(st, line) ==
    [st EXCEPT !.names = Append(@, Split(line)),
               !.list_of_names =
                   [j \in 1..Len(@) |->
                       IF j \in st.aliases THEN Append(@[j], Split(line))
                       ELSE @[j]]]

\* lines 47-64
Directive(st, cmd, lineno) ==
    LET args == Tail(Split(cmd))
    IN  IF StartsWith(cmd, DotInputs)
        THEN [st EXCEPT !.inputs = args, !.bound = @ \cup {"inputs"}]
        ELSE IF StartsWith(cmd, DotOutputs)
        THEN [st EXCEPT !.outputs = args, !.bound = @ \cup {"outputs"}]
        ELSE IF StartsWith(cmd, DotNames)
        THEN IF args = <<>>
             THEN [CommitNames(st) EXCEPT !.pc = "error", !.err = "ValueError"]
             ELSE [CommitNames(st) EXCEPT
                      !.names = << <<SubSeq(args, 1, Len(args) - 1),
                                     args[Len(args)]>> >>,
                      !.aliases = {}]
        ELSE IF StartsWith(cmd, DotModel) THEN st
        ELSE IF StartsWith(cmd, DotEnd)
        THEN [CommitNames(st) EXCEPT
                 !.ended = IF @ = 0 THEN lineno ELSE @]
        ELSE [st EXCEPT !.pc = "error", !.err = "NotImplementedError"]

ParseLine(st, raw, lineno) ==
    LET stripped == Strip(StripComment(raw))
        line == CollapseWhitespace(stripped)
        cmd == st.command \o line
    IN  IF stripped = <<>> THEN st
        ELSE IF EndsWithBackslash(line)
        THEN [st EXCEPT !.command = @ \o SubSeq(line, 1, Len(line) - 1) \o <<" ">>]
        ELSE IF StartsWith(cmd, <<".">>)
        THEN [Directive(st, cmd, lineno) EXCEPT !.command = <<>>]
        ELSE [AppendRow(st, line) EXCEPT !.command = <<>>]

\* line 68: return inputs, outputs, list_of_names
Return(st) ==
    IF {"inputs", "outputs"} \subseteq st.bound THEN [st EXCEPT !.pc = "returned"]
    ELSE [st EXCEPT !.pc = "error", !.err = "UnboundLocalError"]

\* lines 26-28
ParserStart ==
    [command |-> <<>>, names |-> <<>>, aliases |-> {}, bound |-> {}, ended |-> 0,
     inputs |-> <<>>, outputs |-> <<>>, list_of_names |-> <<>>,
     pc |-> "parsing", err |-> ""]

\* parse_blif on a whole file
RECURSIVE ParseFrom(_, _, _)
ParseFrom(st, lines, i) ==
    IF st.pc = "error" THEN st
    ELSE IF i > Len(lines) THEN Return(st)
    ELSE ParseFrom(ParseLine(st, lines[i], i), lines, i + 1)

parse_blif(lines) == ParseFrom(ParserStart, lines, 1)

(***************************************************************************)
(* get_tt_from_blif, line 107: bin(val)[2:].zfill(len(inputs))             *)
(***************************************************************************)
Digit(d) == IF d = 0 THEN "0" ELSE "1"

\* bin(val)[2:]: the binary digits of val, most significant first; "0" for 0
RECURSIVE Bin(_)
Bin(val) == IF val < 2 THEN <<Digit(val)>>
            ELSE Bin(val \div 2) \o <<Digit(val % 2)>>

\* a variant that pads on the right, as str.ljust(width, '0') does
ZfillRight(s, width) ==
    IF Len(s) >= width THEN s ELSE s \o [i \in 1..(width - Len(s)) |-> "0"]

\* str.zfill(width): pads on the left, never truncates
Zfill(s, width) ==
    IF Len(s) >= width THEN s ELSE [i \in 1..(width - Len(s)) |-> "0"] \o s

SeedTable(k) == [i \in 1..Pow2(k) |-> Zfill(Bin(i - 1), k)]

(***************************************************************************)
(* lines 109-113: name_to_index, filled by assignments in order, a later   *)
(* assignment to the same name replacing the earlier one.                  *)
(***************************************************************************)
Put(f, key, val) ==
    [x \in (DOMAIN f) \cup {key} |-> IF x = key THEN val ELSE f[x]]

EmptyMap == [x \in {} |-> 0]

RECURSIVE IndexInputs(_, _, _)
IndexInputs(ins, i, f) ==
    IF i > Len(ins) THEN f ELSE IndexInputs(ins, i + 1, Put(f, ins[i], i - 1))

\* el[0][1] is the output name of definition el
RECURSIVE IndexDefinitions(_, _, _, _)
IndexDefinitions(lon, base, j, f) ==
    IF j > Len(lon) THEN f
    ELSE IndexDefinitions(lon, base, j + 1, Put(f, lon[j][1][2], base + j - 1))

NameToIndex(ins, lon) ==
    IndexDefinitions(lon, Len(ins), 1, IndexInputs(ins, 1, EmptyMap))

(***************************************************************************)
(* lines 115-125: the default-fill pass.                                   *)
(***************************************************************************)
\* int(token) for the tokens "0" and "1"; -1 stands for the ValueError
IntOf(token) == IF token = <<"0">> THEN 0 ELSE IF token = <<"1">> THEN 1 ELSE -1

\* a variant that reads the last cover row: el[-1][-1]
DefaultOfLastRow(el) == IntOf(el[Len(el)][Len(el[Len(el)])])

\* line 121: el[1] is the first element after the header, [-1] its last token
DefaultOf(el) == IntOf(el[2][Len(el[2])])

\* line 122: int(not default)
Reverse(default) == IF default = 0 THEN 1 ELSE 0

AppendBit(table, bit) == [i \in 1..Len(table) |-> Append(table[i], Digit(bit))]

\* the pass from definition j on; an exception ends it where it is raised
RECURSIVE FillFrom(_, _, _, _)
FillFrom(j, table, lon, n2i) ==
    IF j > Len(lon) THEN [err |-> "", tt |-> table, lon |-> lon]
    ELSE LET el == lon[j]
             ins == el[1][1]
         IN  IF \E i \in 1..Len(ins) : ins[i] \notin DOMAIN n2i
             THEN [err |-> "KeyError", tt |-> table, lon |-> lon]
             ELSE LET hdr == <<[i \in 1..Len(ins) |-> n2i[ins[i]]], n2i[el[1][2]]>>
                      lon2 == [lon EXCEPT ![j] = [el EXCEPT ![1] = hdr]]
                  IN  IF Len(el) < 2
                      THEN [err |-> "IndexError", tt |-> table, lon |-> lon2]
                      ELSE IF DefaultOf(el) = -1
                      THEN [err |-> "ValueError", tt |-> table, lon |-> lon2]
                      ELSE FillFrom(j + 1,
                                    AppendBit(table, Reverse(DefaultOf(el))),
                                    lon2, n2i)

(***************************************************************************)
(* change_row, lines 70-87.                                                *)
(***************************************************************************)
\* lines 82-84: zip stops at the shorter of the two sequences
RowMatches(row, input_idx_list, required_inputs) ==
    \A i \in 1..Min(Len(input_idx_list), Len(required_inputs)) :
        \/ required_inputs[i] = "-"
        \/ required_inputs[i] = row[input_idx_list[i] + 1]

change_row(row, input_idx_list, output_idx, required_inputs, required_output) ==
    IF RowMatches(row, input_idx_list, required_inputs)
    THEN SubSeq(row, 1, output_idx) \o required_output
         \o SubSeq(row, output_idx + 2, Len(row))
    ELSE row

(***************************************************************************)
(* lines 133-142: the scan for an unchecked definition whose inputs are    *)
(* all checked.  Its result is <<name, found_unchecked>>: the position the *)
(* loop variable is left at and the flag, which keeps its old value when   *)
(* the scan never reaches line 136.                                        *)
(***************************************************************************)
InList(x, list) == \E i \in 1..Len(list) : list[i] = x

AllChecked(idx_list, chk) == \A i \in 1..Len(idx_list) : InList(idx_list[i], chk)

\* a variant without the check of lines 137-140
ReadyUnchecked(el, chk) == "True"

Ready(el, chk) == IF AllChecked(el[1][1], chk) THEN "True" ELSE "False"

RECURSIVE Scan(_, _, _, _)
Scan(lon, chk, j, flag) ==
    IF j > Len(lon) THEN <<Len(lon), flag>>
    ELSE IF InList(lon[j][1][2], chk) THEN Scan(lon, chk, j + 1, flag)
    ELSE IF Ready(lon[j], chk) = "True" THEN <<j, "True">>
    ELSE Scan(lon, chk, j + 1, "False")

(***************************************************************************)
(* lines 147-149: the cover of one definition applied to the whole table,  *)
(* cover row by cover row.  A cover row that is not a pair of tokens makes *)
(* the call of change_row a TypeError.                                     *)
(***************************************************************************)
ApplyVal(table, el, val) ==
    [i \in 1..Len(table) |->
        change_row(table[i], el[1][1], el[1][2], val[1], val[2])]

RECURSIVE ApplyCover(_, _, _)
ApplyCover(table, el, r) ==
    IF r > Len(el) THEN [err |-> "", tt |-> table]
    ELSE IF Len(el[r]) # 2 THEN [err |-> "TypeError", tt |-> table]
    ELSE ApplyCover(ApplyVal(table, el, el[r]), el, r + 1)

(***************************************************************************)
(* lines 153-157: the projection onto the declared outputs.                *)
(***************************************************************************)
RECURSIVE ReqOutput(_, _, _, _)
ReqOutput(row, outs, n2i, i) ==
    IF i > Len(outs) THEN <<>>
    ELSE <<row[n2i[outs[i]] + 1]>> \o ReqOutput(row, outs, n2i, i + 1)

\* f'{row[:len(inputs)]} : {req_output}'
FormatRecord(row, k, req_output) ==
    SubSeq(row, 1, Min(k, Len(row))) \o <<" ", ":", " ">> \o req_output

ProjectTable(table, k, outs, n2i) ==
    [i \in 1..Len(table) |->
        FormatRecord(table[i], k, ReqOutput(table[i], outs, n2i, 1))]

\* a variant of ResolveOnce without the assertion of line 144 (python -O)
ResolveOnceUnasserted(lon, table, chk, flag) ==
    LET s == Scan(lon, chk, 1, flag)
        stop(e) == [err |-> e, tt |-> table, checked |-> chk,
                    found_unchecked |-> s[2], name |-> s[1]]
    IN  IF s[1] = 0 THEN stop("UnboundLocalError")
        ELSE LET el == lon[s[1]]
                 applied == ApplyCover(table, el, 2)
             IN  IF applied.err # "" THEN stop(applied.err)
                 ELSE [err |-> "", tt |-> applied.tt,
                       checked |-> Append(chk, el[1][2]),
                       found_unchecked |-> s[2], name |-> s[1]]

(***************************************************************************)
(* lines 131-150: one iteration of the resolution loop.                    *)
(***************************************************************************)
ResolveOnce(lon, table, chk, flag) ==
    LET s == Scan(lon, chk, 1, flag)
        stop(e) == [err |-> e, tt |-> table, checked |-> chk,
                    found_unchecked |-> s[2], name |-> s[1]]
    IN  IF s[2] = "unbound" THEN stop("UnboundLocalError")
        ELSE IF s[2] = "False" THEN stop("AssertionError")
        ELSE LET el == lon[s[1]]
                 applied == ApplyCover(table, el, 2)
             IN  IF applied.err # "" THEN stop(applied.err)
                 ELSE [err |-> "", tt |-> applied.tt,
                       checked |-> Append(chk, el[1][2]),
                       found_unchecked |-> s[2], name |-> s[1]]

\* a variant that is off by one
TooManyInputsFromCeiling(n) == n >= MAXIMAL_INPUTS

\* line 104
TooManyInputs(n) == n > MAXIMAL_INPUTS

\* line 130 and the range of line 131
InitialChecked(k) == [i \in 1..k |-> i - 1]

Iterations(table, chk) ==
    IF Len(table[1]) > Len(chk) THEN Len(table[1]) - Len(chk) ELSE 0

(***************************************************************************)
(* The netlists the builder is run on: what parse_blif can return.         *)
(*   el = << <<input names, output name>>, cover row, ... >>               *)
(*   cover row = <<pattern, output token>>, or <<output token>> for a      *)
(*   definition without inputs                                             *)
(***************************************************************************)
\* the input lists a definition header is drawn from
InsChoices ==
    { <<>>, << <<"a">> >>, << <<"y">> >>, << <<"z">> >>,
      << <<"a">>, <<"b">> >>, << <<"a">>, <<"y">> >> }

\* the declared outputs: y alone, or z and y when some definition defines z
OutputChoices(lon) ==
    { << <<"y">> >> } \cup
    (IF \E j \in 1..Len(lon) : lon[j][1][2] = <<"z">>
     THEN { << <<"z">>, <<"y">> >> } ELSE {})

Rows(m) ==
    IF m = 0 THEN {<<<<b>>>> : b \in Bits}
    ELSE {<<p, <<b>>>> : p \in [1..m -> PatternSymbols], b \in Bits}

\* the size of a definition with m inputs and r cover rows
DefSize(m, r) == 1 + r * (m + 1)

DefChoices(budget) ==
    UNION { UNION { { <<<<ins, out>>>> \o cover :
                        out \in OutNames,
                        cover \in [1..r -> Rows(Len(ins))] } :
                    r \in {q \in 1..MaxCover : DefSize(Len(ins), q) <= budget} } :
            ins \in InsChoices }

RECURSIVE DefLists(_, _)
DefLists(n, budget) ==
    IF n = 0 THEN {<<>>}
    ELSE {<<>>} \cup
         UNION { { <<el>> \o rest :
                     rest \in DefLists(n - 1,
                                 budget - DefSize(Len(el[1][1]), Len(el) - 1)) } :
                 el \in DefChoices(budget) }

InputList(k) ==
    [i \in 1..k |-> IF i <= Len(InputNames) THEN InputNames[i]
                    ELSE <<"x", ToString(i)>>]

\* netlists whose table is enumerated
SmallNetlist(net) ==
    \E lon \in DefLists(MaxDefs, MaxSize) :
        \E k \in 0..MaxInputs, outs \in OutputChoices(lon) :
            net = <<InputList(k), outs, lon>>

\* netlists around the ceiling of line 104
CeilingNetlist(net) ==
    \E lon \in DefLists(1, 3) :
        \E k \in (MAXIMAL_INPUTS - 1)..(MAXIMAL_INPUTS + MaxOver),
           outs \in OutputChoices(lon) :
            net = <<InputList(k), outs, lon>>

\* the builder's runs start from a returned parse, of a file not modelled
ParserIdle ==
    /\ source = <<>> /\ fh = 0 /\ command = <<>> /\ names = <<>>
    /\ aliases = {} /\ bound = {"inputs", "outputs"} /\ ended = 0

Init ==
    /\ ParserIdle
    /\ SmallNetlist(blif) \/ CeilingNetlist(blif)
    /\ inputs = blif[1] /\ outputs = blif[2] /\ list_of_names = blif[3]
    /\ tt = <<>> /\ name_to_index = EmptyMap /\ checked = <<>>
    /\ found_unchecked = "unbound" /\ name = 0 /\ todo = 0
    /\ pc = "start" /\ err = ""

(***************************************************************************)
(* get_tt_from_blif, one action per stage.                                 *)
(***************************************************************************)
Raise(e) == pc' = "error" /\ err' = e

\* lines 104-105
CheckInputs ==
    /\ pc = "start"
    /\ IF TooManyInputs(Len(inputs)) THEN Raise("MemoryError")
       ELSE pc' = "seed" /\ err' = err
    /\ UNCHANGED <<parseVars, inputs, outputs, list_of_names, buildVars>>

\* lines 107-113; tables of more than 2^MaxInputs rows are not enumerated
Seed ==
    /\ pc = "seed"
    /\ Len(inputs) <= MaxInputs
    /\ tt' = SeedTable(Len(inputs))
    /\ name_to_index' = NameToIndex(inputs, list_of_names)
    /\ pc' = "fill"
    /\ UNCHANGED <<parseVars, inputs, outputs, list_of_names, blif, checked,
                   found_unchecked, name, todo, err>>

\* lines 115-125, then lines 130-131
FillDefaults ==
    /\ pc = "fill"
    /\ LET filled == FillFrom(1, tt, list_of_names, name_to_index)
       IN  /\ tt' = filled.tt
           /\ list_of_names' = filled.lon
           /\ IF filled.err # ""
              THEN Raise(filled.err) /\ UNCHANGED <<checked, todo>>
              ELSE /\ checked' = InitialChecked(Len(inputs))
                   /\ todo' = Iterations(filled.tt, InitialChecked(Len(inputs)))
                   /\ pc' = "resolve" /\ err' = err
    /\ UNCHANGED <<parseVars, inputs, outputs, blif, name_to_index,
                   found_unchecked, name>>

\* lines 131-150, one iteration
ResolveStep ==
    /\ pc = "resolve"
    /\ todo > 0
    /\ LET r == ResolveOnce(list_of_names, tt, checked, found_unchecked)
       IN  /\ tt' = r.tt
           /\ checked' = r.checked
           /\ found_unchecked' = r.found_unchecked
           /\ name' = r.name
           /\ IF r.err # "" THEN Raise(r.err) /\ todo' = todo
              ELSE pc' = "resolve" /\ err' = err /\ todo' = todo - 1
    /\ UNCHANGED <<parseVars, inputs, outputs, list_of_names, blif,
                   name_to_index>>

\* lines 153-159
Project ==
    /\ pc = "resolve"
    /\ todo = 0
    /\ IF \E i \in 1..Len(outputs) : outputs[i] \notin DOMAIN name_to_index
       THEN Raise("KeyError") /\ tt' = tt
       ELSE /\ tt' = ProjectTable(tt, Len(inputs), outputs, name_to_index)
            /\ pc' = "done" /\ err' = err
    /\ UNCHANGED <<parseVars, inputs, outputs, list_of_names, blif,
                   name_to_index, checked, found_unchecked, name, todo>>

Next == CheckInputs \/ Seed \/ FillDefaults \/ ResolveStep \/ Project

Spec == Init /\ [][Next]_vars

(***************************************************************************)
(* get_tt_from_blif as a function of what parse_blif returned: the stages  *)
(* above, composed.  Its result is [err, tt]; tt is the table when err is  *)
(* empty.                                                                  *)
(***************************************************************************)
RECURSIVE ResolveAll(_, _, _, _, _)
ResolveAll(lon, table, chk, flag, n) ==
    IF n = 0 THEN [err |-> "", tt |-> table]
    ELSE LET r == ResolveOnce(lon, table, chk, flag)
         IN  IF r.err # "" THEN [err |-> r.err, tt |-> <<>>]
             ELSE ResolveAll(lon, r.tt, r.checked, r.found_unchecked, n - 1)

get_tt_from_blif(ins, outs, lon) ==
    IF TooManyInputs(Len(ins)) THEN [err |-> "MemoryError", tt |-> <<>>]
    ELSE LET n2i == NameToIndex(ins, lon)
             filled == FillFrom(1, SeedTable(Len(ins)), lon, n2i)
             chk == InitialChecked(Len(ins))
         IN  IF filled.err # "" THEN [err |-> filled.err, tt |-> <<>>]
             ELSE LET res == ResolveAll(filled.lon, filled.tt, chk, "unbound",
                                        Iterations(filled.tt, chk))
                  IN  IF res.err # "" THEN res
                      ELSE IF \E i \in 1..Len(outs) : outs[i] \notin DOMAIN n2i
                      THEN [err |-> "KeyError", tt |-> <<>>]
                      ELSE [err |-> "",
                            tt |-> ProjectTable(res.tt, Len(ins), outs, n2i)]

(***************************************************************************)
(* Vocabulary of the properties.                                           *)
(***************************************************************************)
K == Len(inputs)
N == Len(list_of_names)

\* the resolution loop has run all its iterations; tt holds the full rows
Resolved == pc = "resolve" /\ todo = 0

\* the default-fill pass is over and no definition has been evaluated yet
Filled == pc = "resolve" /\ Len(checked) = K

OutName(j) == blif[3][j][1][2]
InNames(j) == blif[3][j][1][1]

DistinctOuts == \A i, j \in 1..N : i # j => OutName(i) # OutName(j)
DuplicateOuts == \E i, j \in 1..N : i # j /\ OutName(i) = OutName(j)

\* a cover row's pattern and output bit: the last token is the bit
PatternOf(val) == IF Len(val) = 2 THEN val[1] ELSE <<>>
BitOf(val) == val[Len(val)][1]
Complement(b) == IF b = "0" THEN "1" ELSE "0"

\* the v-th input combination on k bits, first input most significant
BigEndian(v, k) == [i \in 1..k |-> IF (v \div Pow2(k - i)) % 2 = 1 THEN "1" ELSE "0"]

\* in the full rows: cover row r of definition j matches table row i
Matched(j, r, i) ==
    LET el == list_of_names[j]
        pat == PatternOf(el[r])
    IN  /\ Len(pat) = Len(el[1][1])
        /\ \A p \in 1..Len(pat) : pat[p] = "-" \/ pat[p] = tt[i][el[1][1][p] + 1]

Unmatched(j, i) == \A r \in 2..Len(list_of_names[j]) : ~Matched(j, r, i)

LastMatching(j, i) ==
    CHOOSE r \in 2..Len(list_of_names[j]) :
        /\ Matched(j, r, i)
        /\ \A q \in (r + 1)..Len(list_of_names[j]) : ~Matched(j, q, i)

\* the bit of definition j's output column in table row i
OutputBit(j, i) == tt[i][list_of_names[j][1][2] + 1]

MixedCover(j) ==
    BitOf(list_of_names[j][2]) # BitOf(list_of_names[j][Len(list_of_names[j])])

(***************************************************************************)
(* C1 as stated: in a table row that none of a definition's cover rows     *)
(* matches, the final bit of the definition's column is the complement of  *)
(* the output bit of the LAST cover row.  (Stated where the column belongs *)
(* to one definition only: at least one input, distinct output names.)     *)
(***************************************************************************)
C1_DefaultFromLastRow ==
    (Resolved /\ K >= 1 /\ DistinctOuts) =>
        \A j \in 1..N : \A i \in 1..Len(tt) :
            Unmatched(j, i) =>
                OutputBit(j, i) =
                    Complement(BitOf(list_of_names[j][Len(list_of_names[j])]))

(***************************************************************************)
(* C1 amended: the default-fill pass appends to every row, for the j-th    *)
(* definition, the complement of the output bit of its FIRST cover row;    *)
(* and in a table row that none of a definition's cover rows matches, the  *)
(* final bit of the definition's column is that complement, for netlists   *)
(* with at least one primary input and distinct definition output names.   *)
(***************************************************************************)
C1_DefaultFromFirstRow ==
    /\ Filled =>
          \A j \in 1..N : \A i \in 1..Len(tt) :
              tt[i][Len(tt[i]) - N + j] = Complement(BitOf(list_of_names[j][2]))
    /\ (Resolved /\ K >= 1 /\ DistinctOuts) =>
          \A j \in 1..N : \A i \in 1..Len(tt) :
              Unmatched(j, i) =>
                  OutputBit(j, i) = Complement(BitOf(list_of_names[j][2]))

C1_Witness ==
    /\ Resolved /\ K >= 1 /\ DistinctOuts
    /\ \E j \in 1..N : \E i \in 1..Len(tt) :
          /\ Len(list_of_names[j]) >= 3
          /\ MixedCover(j)
          /\ Unmatched(j, i)

(***************************************************************************)
(* C2: in a table row that at least one cover row of a definition matches, *)
(* the final bit of the definition's column is the output bit of the last  *)
(* matching cover row in declaration order.                                *)
(***************************************************************************)
C2_LastMatchingRowWins ==
    Resolved =>
        \A j \in 1..N : \A i \in 1..Len(tt) :
            ~Unmatched(j, i) =>
                OutputBit(j, i) = BitOf(list_of_names[j][LastMatching(j, i)])

\* the same, where every definition has an output name of its own
C2_LastMatchingRowWins_DistinctOuts ==
    (Resolved /\ DistinctOuts) =>
        \A j \in 1..N : \A i \in 1..Len(tt) :
            ~Unmatched(j, i) =>
                OutputBit(j, i) = BitOf(list_of_names[j][LastMatching(j, i)])

(***************************************************************************)
(* C3: when some definition is unresolved and no unresolved definition has *)
(* all its inputs resolved, the iteration ends the build with an error and *)
(* no table; a cover is applied only for a definition whose inputs are all *)
(* resolved; a failed build stays failed.                                  *)
(***************************************************************************)
Unresolved(j) == ~InList(list_of_names[j][1][2], checked)

NoCandidate ==
    /\ \E j \in 1..N : Unresolved(j)
    /\ \A j \in 1..N :
          Unresolved(j) =>
              \E p \in 1..Len(list_of_names[j][1][1]) :
                  ~InList(list_of_names[j][1][1][p], checked)

C3_NoCandidateAborts ==
    [][ /\ (pc = "resolve" /\ todo > 0 /\ NoCandidate) =>
              (pc' = "error" /\ tt' = tt /\ checked' = checked)
        /\ (pc = "resolve" /\ todo' = todo - 1) =>
              \A p \in 1..Len(list_of_names[name'][1][1]) :
                  InList(list_of_names[name'][1][1][p], checked)
        /\ (pc = "error") => (pc' = "error") ]_vars

C3_Witness ==
    /\ pc = "error" /\ err = "AssertionError"
    /\ NoCandidate
    /\ Len(checked) > K

(***************************************************************************)
(* C4: a returned table has 2^k records, and record v starts with the      *)
(* k-character big-endian binary expansion of v.                           *)
(***************************************************************************)
C4_RecordsEnumerateInputs ==
    pc = "done" =>
        /\ K <= MAXIMAL_INPUTS
        /\ Len(tt) = Pow2(K)
        /\ \A v \in 0..(Pow2(K) - 1) :
              /\ Len(tt[v + 1]) = K + 3 + Len(outputs)
              /\ SubSeq(tt[v + 1], 1, K) = BigEndian(v, K)
              /\ SubSeq(tt[v + 1], K + 1, K + 3) = <<" ", ":", " ">>

C4_Witness == pc = "done" /\ K = 2 /\ Len(tt) = 4

(***************************************************************************)
(* C5: the build fails with the resource error exactly when the number of  *)
(* primary inputs exceeds 22, before any table row exists; with exactly 22 *)
(* inputs the check lets the build go on.                                  *)
(***************************************************************************)
C5_CeilingExact ==
    /\ MAXIMAL_INPUTS = 22
    /\ pc # "start" => ((err = "MemoryError") <=> (K > 22))
    /\ err = "MemoryError" => (pc = "error" /\ tt = <<>>)
    /\ (pc # "start" /\ K = 22) => pc = "seed"

C5_Witness == pc = "error" /\ err = "MemoryError" /\ K = 23 /\ tt = <<>>

(***************************************************************************)
(* C8: a netlist in which two definitions have the same output name never  *)
(* yields a table.                                                         *)
(***************************************************************************)
C8_DuplicateOutputRejected == DuplicateOuts => pc # "done"

(***************************************************************************)
(* C9: with at least one primary input, distinct output names and acyclic  *)
(* dependencies, every permutation of the definitions gives the same       *)
(* outcome, and a returned table is the one obtained by evaluating every   *)
(* signal from the final values of the signals it reads.                   *)
(***************************************************************************)
Acyclic ==
    \A S \in SUBSET (1..N) :
        S # {} =>
            \E j \in S : \A p \in 1..Len(InNames(j)) :
                \A s \in S : InNames(j)[p] # OutName(s)

Permutation(f) == [j \in 1..N |-> blif[3][f[j]]]

Bijections == {f \in [1..N -> 1..N] : \A i, j \in 1..N : i # j => f[i] # f[j]}

\* the value of signal nm for input combination v: a defined signal is its
\* cover evaluated on the values of its inputs, a primary input is its bit
RECURSIVE ValueOf(_, _)
ValueOf(nm, v) ==
    IF \E j \in 1..N : OutName(j) = nm
    THEN LET j == CHOOSE d \in 1..N : OutName(d) = nm
             el == blif[3][j]
             hit(r) == \A p \in 1..Len(InNames(j)) :
                           \/ el[r][1][p] = "-"
                           \/ el[r][1][p] = ValueOf(InNames(j)[p], v)
             hits == {r \in 2..Len(el) : hit(r)}
         IN  IF hits = {} THEN Complement(BitOf(el[2]))
             ELSE BitOf(el[CHOOSE r \in hits : \A q \in hits : q <= r])
    ELSE LET i == CHOOSE x \in 1..K : inputs[x] = nm
         IN  BigEndian(v, K)[i]

ReferenceTable ==
    [i \in 1..Pow2(K) |->
        BigEndian(i - 1, K) \o <<" ", ":", " ">>
        \o [o \in 1..Len(outputs) |-> ValueOf(outputs[o], i - 1)]]

C9_OrderIndependent ==
    (pc \in {"done", "error"} /\ K >= 1 /\ DistinctOuts /\ Acyclic) =>
        /\ \A f \in Bijections :
              LET other == get_tt_from_blif(blif[1], blif[2], Permutation(f))
              IN  /\ (other.err = "") <=> (pc = "done")
                  /\ pc = "done" => other.tt = tt
        /\ pc = "done" => tt = ReferenceTable

C9_Witness ==
    /\ pc = "done" /\ K >= 1 /\ DistinctOuts /\ Acyclic
    /\ N >= 2
    /\ \E p \in 1..Len(InNames(1)) : InNames(1)[p] = OutName(2)
    /\ \E o \in 1..Len(outputs) : outputs[o] = OutName(1)

(***************************************************************************)
(* C10: with distinct output names, after the default-fill pass and during *)
(* resolution every row has length k + n, primary input i is at column i,  *)
(* and the default bit of the j-th definition is at column k + j, the      *)
(* index name_to_index gives its output.                                   *)
(***************************************************************************)
C10_ColumnsDenoteSignals ==
    (pc = "resolve" /\ DistinctOuts) =>
        /\ \A i \in 1..Len(tt) :
              /\ Len(tt[i]) = K + N
              /\ SubSeq(tt[i], 1, K) = BigEndian(i - 1, K)
        /\ \A j \in 1..N : name_to_index[OutName(j)] = K + j - 1
        /\ Filled =>
              \A j \in 1..N : \A i \in 1..Len(tt) :
                  tt[i][K + j] = Complement(BitOf(list_of_names[j][2]))

(***************************************************************************)
(* parse_blif as a state machine: one action per physical line read, one   *)
(* for the return.  The files are up to MaxLines lines out of LineChoices. *)
(***************************************************************************)
LineChoices ==
    { DotInputs \o <<" ", "a", " ", "b">>,
      DotInputs \o <<" ", "a", " ", "\\">>,
      DotInputs \o <<" ", "a", "\\">>,
      DotOutputs \o <<" ", "y">>,
      DotNames \o <<" ", "a", "\t", "y">>,
      <<"1", " ", "1">>,
      <<"1", " ", "\\">>,
      <<"1">>,
      DotEnd,
      <<" ", "#", " ", "c">>,
      <<".", "l", "a", "t", "c", "h">> }

Files == UNION { [1..n -> LineChoices] : n \in 0..MaxLines }

ParserState ==
    [command |-> command, names |-> names, aliases |-> aliases, bound |-> bound,
     ended |-> ended, inputs |-> inputs, outputs |-> outputs,
     list_of_names |-> list_of_names, pc |-> pc, err |-> err]

BuilderIdle ==
    /\ blif = <<>> /\ tt = <<>> /\ name_to_index = EmptyMap /\ checked = <<>>
    /\ found_unchecked = "unbound" /\ name = 0 /\ todo = 0

InitParse ==
    /\ source \in Files
    /\ fh = 0
    /\ command = ParserStart.command /\ names = ParserStart.names
    /\ aliases = ParserStart.aliases /\ bound = ParserStart.bound
    /\ ended = ParserStart.ended /\ inputs = ParserStart.inputs
    /\ outputs = ParserStart.outputs
    /\ list_of_names = ParserStart.list_of_names
    /\ pc = ParserStart.pc /\ err = ParserStart.err
    /\ BuilderIdle

Becomes(st) ==
    /\ command' = st.command /\ names' = st.names /\ aliases' = st.aliases
    /\ bound' = st.bound /\ ended' = st.ended /\ inputs' = st.inputs
    /\ outputs' = st.outputs /\ list_of_names' = st.list_of_names
    /\ pc' = st.pc /\ err' = st.err

\* lines 29-67, one iteration
ReadLine ==
    /\ pc = "parsing"
    /\ fh < Len(source)
    /\ fh' = fh + 1
    /\ Becomes(ParseLine(ParserState, source[fh + 1], fh + 1))
    /\ UNCHANGED <<source, buildVars>>

\* line 68, at the end of the file
ReturnParse ==
    /\ pc = "parsing"
    /\ fh = Len(source)
    /\ Becomes(Return(ParserState))
    /\ UNCHANGED <<source, fh, buildVars>>

NextParse == ReadLine \/ ReturnParse

SpecParse == InitParse /\ [][NextParse]_vars

(***************************************************************************)
(* Vocabulary of the parser's properties.                                  *)
(***************************************************************************)
\* the whitespace-separated tokens of a physical line, its comment and its
\* trailing backslash left out
WordsOf(raw) ==
    LET line == CollapseWhitespace(Strip(StripComment(raw)))
        body == IF EndsWithBackslash(line)
                THEN RStrip(SubSeq(line, 1, Len(line) - 1)) ELSE line
    IN  IF body = <<>> THEN <<>> ELSE Split(body)

Continued(raw) == EndsWithBackslash(Strip(StripComment(raw)))
Blank(raw) == Strip(StripComment(raw)) = <<>>

RECURSIVE JoinWords(_)
JoinWords(words) ==
    IF words = <<>> THEN <<>>
    ELSE IF Len(words) = 1 THEN words[1]
    ELSE words[1] \o <<" ">> \o JoinWords(Tail(words))

\* the file with every logical command written on one physical line; a
\* continuation that the file ends in is no command
RECURSIVE OneLinePerCommand(_, _, _)
OneLinePerCommand(lines, i, words) ==
    IF i > Len(lines) THEN <<>>
    ELSE IF Blank(lines[i]) THEN OneLinePerCommand(lines, i + 1, words)
    ELSE IF Continued(lines[i])
    THEN OneLinePerCommand(lines, i + 1, words \o WordsOf(lines[i]))
    ELSE <<JoinWords(words \o WordsOf(lines[i]))>>
         \o OneLinePerCommand(lines, i + 1, <<>>)

SameOutcome(r) ==
    /\ r.pc = pc /\ r.err = err
    /\ r.inputs = inputs /\ r.outputs = outputs
    /\ r.list_of_names = list_of_names

(***************************************************************************)
(* C6: a file that parse_blif returns from parses as the file in which     *)
(* every command continued with trailing backslashes is written, token by  *)
(* token, on one line.                                                     *)
(***************************************************************************)
C6_ContinuationAsOneLine ==
    pc = "returned" => SameOutcome(parse_blif(OneLinePerCommand(source, 1, <<>>)))

(***************************************************************************)
(* C7: once `.end` has been read, the rest of the file changes nothing:    *)
(* what parse_blif returns is what it returns for the file cut after that  *)
(* line.                                                                   *)
(***************************************************************************)
C7_EndStopsParsing ==
    (pc = "returned" /\ ended > 0) => SameOutcome(parse_blif(SubSeq(source, 1, ended)))

====
